---- MODULE Spec2Model ----
(***************************************************************************)
(* A model of src/networks/networks.py: the feed-forward Q-network heads   *)
(* (DQN, DuelingDQN, CategoricalDQN, CategoricalDuelingDQN, QRDQN,          *)
(* DuelingQRDQN), the recurrent DRQN and the ActorCritic network.          *)
(*                                                                         *)
(* Three specifications share the module:                                  *)
(*   SpecAC    ActorCritic.forward in recurrent mode (masked GRU loop)     *)
(*   SpecHead  the forward arithmetic of the dueling / categorical heads   *)
(*   SpecNet   construction, sample_noise and DRQN.forward's shapes        *)
(*                                                                         *)
(* Tensors are sequences (1-based): row r of the source (0-based) is       *)
(* element r+1.  A float is <<"fin", n>> (a finite number, exact           *)
(* arithmetic) or <<"nan", 0>> (IEEE not-a-number, which every arithmetic  *)
(* operation propagates, multiplication by zero included).                 *)
(***************************************************************************)
EXTENDS Integers, Sequences, FiniteSets, TLC

VARIABLES
    \* ---- ActorCritic.forward, recurrent mode
    acW,        \* parameters fixed by ActorCritic.__init__
    acIn,       \* inputs: one observation per row
    acMask,     \* masks: one 0/1 entry per row
    acH,        \* states: the incoming recurrent state, one entry per row
    acHB,       \* a second incoming state (a second run of the same call)
    acEnv,      \* the environment whose incoming state differs in acHB
    acRes,      \* what forward(acIn, acH, acMask) returned
    acResB,     \* what forward(acIn, acHB, acMask) returned
    acPos,      \* number of single-step calls made so far
    acCur,      \* the state threaded through the single-step calls
    acSteps,    \* the results of the single-step calls, in order
    acPc,       \* position of the caller
    \* ---- heads: forward arithmetic
    hdArch,     \* the head class
    hdB,        \* batch size of the call
    hdA,        \* num_actions
    hdK,        \* atoms / quantiles
    hdSeed,     \* selects the parameters the constructor drew
    hdFeat,     \* the body's features, one per batch row
    hdAdv,      \* output of the advantage stack (fc stack for CategoricalDQN)
    hdVal,      \* output of the value stack
    hdC,        \* the constant added to the advantage stream
    hdOut,      \* what forward returned
    hdOutC,     \* what forward returns with the advantage stream shifted
    hdPc,
    \* ---- construction, sample_noise, DRQN.forward
    net,        \* the constructor's arguments
    netStatus,  \* "new" before the constructor, then "ok" or the exception
    netInitLog, \* the tensors layer_init wrote: <<layer, attribute>>, in order
    noiseVer,   \* per sub-layer, how many times its sample_noise has run
    netLog,     \* the sub-layers the last sample_noise call resampled, in order
    netCalls,   \* number of sample_noise calls on the network
    netOut,     \* what the last forward returned
    netRef      \* what the first forward returned

acVars == <<acW, acIn, acMask, acH, acHB, acEnv, acRes, acResB, acPos, acCur,
            acSteps, acPc>>
hdVars == <<hdArch, hdB, hdA, hdK, hdSeed, hdFeat, hdAdv, hdVal, hdC, hdOut,
            hdOutC, hdPc>>
netVars == <<net, netStatus, netInitLog, noiseVer, netLog, netCalls, netOut,
             netRef>>
vars == <<acVars, hdVars, netVars>>

(***************************************************************************)
(* Bounds of the model.                                                    *)
(***************************************************************************)
MaxRows == 4
MaxN == 2
MaxBatch == 2
MaxActions == 2
MaxAtoms == 2
MaxSeq == 2
MaxGru == 2
MaxCalls == 2

(***************************************************************************)
(* Floats.                                                                 *)
(***************************************************************************)
Fin(n) == <<"fin", n>>
NaN == <<"nan", 0>>
IsFinite(a) == a[1] = "fin"
FMul(a, b) == IF IsFinite(a) /\ IsFinite(b) THEN Fin(a[2] * b[2]) ELSE NaN
FAdd(a, b) == IF IsFinite(a) /\ IsFinite(b) THEN Fin(a[2] + b[2]) ELSE NaN
Relu(a) == IF IsFinite(a) THEN (IF a[2] > 0 THEN a ELSE Fin(0)) ELSE NaN
\* a saturating non-linearity standing for tanh: finite in, finite out
Squash(a) ==
    IF ~IsFinite(a) THEN NaN
    ELSE IF a[2] > 3 THEN Fin(3) ELSE IF a[2] < -3 THEN Fin(-3) ELSE a
Linear(w, b, a) == FAdd(FMul(Fin(w), a), Fin(b))

Slice(s, lo, n) == [i \in 1..n |-> s[lo + i]]

(***************************************************************************)
(* ActorCritic: the layers, as row-wise functions of their parameters.     *)
(***************************************************************************)
ACParams == {
    [f1w |-> 1, f1b |-> 0, wx |-> 1, wh |-> 1, b |-> 0,
     cw |-> 1, cb |-> 0, aw |-> 2, ab |-> 1],
    [f1w |-> 2, f1b |-> -1, wx |-> 1, wh |-> -2, b |-> 1,
     cw |-> -1, cb |-> 1, aw |-> 1, ab |-> 0] }

\* conv1..conv3 with ReLU, the flatten, then F.relu(self.fc1(x)), one row
Fc1Relu(w, o) == Relu(Linear(w.f1w, w.f1b, Fin(o)))

\* nn.GRUCell on one row: a deterministic function of the input and the state
GRUCell(w, x, h) == Squash(FAdd(FAdd(FMul(Fin(w.wx), x), FMul(Fin(w.wh), h)), Fin(w.b)))

\* faulty variant: the state is fed to the cell unmasked
MaskedGRUNoMask(w, x, states, masks) ==
    [n \in 1..Len(states) |-> GRUCell(w, x[n], states[n])]

\* self.gru(x, states * masks) on N rows; masks holds one 0/1 entry per row
MaskedGRU(w, x, states, masks) ==
    [n \in 1..Len(states) |-> GRUCell(w, x[n], FMul(states[n], Fin(masks[n])))]

CriticLinear(w, h) == Linear(w.cw, w.cb, h)
ActorLinear(w, h) == Linear(w.aw, w.ab, h)

\* faulty variant: the loop computes every step from the incoming state
RECURSIVE GRULoopStale(_, _, _, _, _, _, _)
GRULoopStale(w, i, T, x, states, masks, outputs) ==
    IF i > T THEN [states |-> states, outputs |-> outputs]
    ELSE LET N == Len(states)
             hx == [n \in 1..N |->
                      GRUCell(w, x[(i - 1) * N + n],
                              FMul(states[n], Fin(masks[(i - 1) * N + n])))]
         IN GRULoopStale(w, i + 1, T, x, states, masks, outputs \o hx)

\* the loop of lines 320-323: outputs.append(hx), the state fed to the next step
RECURSIVE GRULoop(_, _, _, _, _, _, _)
GRULoop(w, i, T, x, states, masks, outputs) ==
    IF i > T THEN [states |-> states, outputs |-> outputs]
    ELSE LET N == Len(states)
             hx == MaskedGRU(w, Slice(x, (i - 1) * N, N), states,
                             Slice(masks, (i - 1) * N, N))
         IN GRULoop(w, i + 1, T, x, hx, masks, outputs \o hx)

ACError(kind) ==
    [status |-> "error", err |-> kind, logits |-> <<>>, value |-> <<>>,
     states |-> <<>>, hidden |-> <<>>]
ACResult(w, x, states) ==
    [status |-> "ok", err |-> "",
     logits |-> [r \in 1..Len(x) |-> ActorLinear(w, x[r])],
     value |-> [r \in 1..Len(x) |-> CriticLinear(w, x[r])],
     states |-> states, hidden |-> x]

\* faulty variant: T is truncated and the rows beyond T * N are dropped
ACForwardTruncating(w, inputs, states, masks) ==
    LET x == [r \in 1..Len(inputs) |-> Fc1Relu(w, inputs[r])]
        N == Len(states)
        T == Len(inputs) \div N
    IN IF Len(inputs) = Len(states)
       THEN LET h == MaskedGRU(w, x, states, masks) IN ACResult(w, h, h)
       ELSE LET l == GRULoop(w, 1, T, x, states, masks, <<>>)
            IN ACResult(w, l.outputs, l.states)

\* ActorCritic.forward with use_gru = True
ACForward(w, inputs, states, masks) ==
    LET x == [r \in 1..Len(inputs) |-> Fc1Relu(w, inputs[r])]
        N == Len(states)
        T == Len(inputs) \div N
    IN IF Len(inputs) = Len(states)
       THEN LET h == MaskedGRU(w, x, states, masks) IN ACResult(w, h, h)
       ELSE IF T * N # Len(x) THEN ACError("view")            \* x.view(T, N, -1)
       ELSE IF T * N # Len(masks) THEN ACError("view")        \* masks.view(T, N, 1)
       ELSE IF T = 0 THEN ACError("stack")                    \* torch.stack([])
       ELSE LET l == GRULoop(w, 1, T, x, states, masks, <<>>)
            IN ACResult(w, l.outputs, l.states)

NoRes == [status |-> "none", err |-> "", logits |-> <<>>, value |-> <<>>,
          states |-> <<>>, hidden |-> <<>>]

ObsVals == {0, 1}
StateVals == {Fin(0), Fin(1), NaN}

acIdle ==
    /\ acW = CHOOSE p \in ACParams : TRUE
    /\ acIn = <<>> /\ acMask = <<>> /\ acH = <<>> /\ acHB = <<>> /\ acEnv = 0
    /\ acRes = NoRes /\ acResB = NoRes /\ acPos = 0 /\ acCur = <<>>
    /\ acSteps = <<>> /\ acPc = "off"

hdIdle ==
    /\ hdArch = "none" /\ hdB = 0 /\ hdA = 0 /\ hdK = 0 /\ hdSeed = 0
    /\ hdFeat = <<>> /\ hdAdv = <<>> /\ hdVal = <<>> /\ hdC = 0
    /\ hdOut = <<>> /\ hdOutC = <<>> /\ hdPc = "off"

NoNet == [arch |-> "none", noisy |-> FALSE, use_gru |-> FALSE,
          bidirectional |-> FALSE, gru_size |-> 0, num_actions |-> 0]
NoOut == [at |-> 0, out |-> [status |-> "none"]]

netIdle ==
    /\ net = NoNet /\ netStatus = "off" /\ netInitLog = <<>>
    /\ noiseVer = <<>> /\ netLog = <<>> /\ netCalls = 0 /\ netOut = NoOut
    /\ netRef = NoOut

ACInit ==
    /\ acW \in ACParams
    /\ \E rows \in 0..MaxRows :
         /\ acIn \in [1..rows -> ObsVals]
         /\ acMask \in [1..rows -> {0, 1}]
    /\ \E N \in 1..MaxN : acH \in [1..N -> StateVals]
    /\ acHB = <<>> /\ acEnv = 0
    /\ acRes = NoRes /\ acResB = NoRes
    /\ acPos = 0 /\ acCur = acH /\ acSteps = <<>>
    /\ acPc = "call"
    /\ hdIdle /\ netIdle

\* number of single-step calls the rollout splits into (0: it does not split)
StepsToMake ==
    IF Len(acIn) % Len(acH) = 0 THEN Len(acIn) \div Len(acH) ELSE 0

\* the caller passes the whole rollout to one forward call
FlatForward ==
    /\ acPc = "call"
    /\ acRes' = ACForward(acW, acIn, acH, acMask)
    /\ acPc' = "steps"
    /\ UNCHANGED <<acW, acIn, acMask, acH, acHB, acEnv, acResB, acPos, acCur,
                   acSteps, hdVars, netVars>>

\* the caller passes step acPos of the rollout (N rows) and the state the
\* previous call returned
StepForward ==
    /\ acPc = "steps"
    /\ acPos < StepsToMake
    /\ LET N == Len(acH)
           r == ACForward(acW, Slice(acIn, acPos * N, N), acCur,
                          Slice(acMask, acPos * N, N))
       IN /\ acCur' = r.states
          /\ acSteps' = Append(acSteps, r)
          /\ acPos' = acPos + 1
    /\ UNCHANGED <<acW, acIn, acMask, acH, acHB, acEnv, acRes, acResB, acPc,
                   hdVars, netVars>>

\* the whole rollout again, from an incoming state that differs in one
\* environment
FlatForwardB ==
    /\ acPc = "steps"
    /\ acPos = StepsToMake
    /\ \E n \in 1..Len(acH) : \E v \in StateVals \ {acH[n]} :
         /\ acEnv' = n
         /\ acHB' = [acH EXCEPT ![n] = v]
         /\ acResB' = ACForward(acW, acIn, acHB', acMask)
    /\ acPc' = "done"
    /\ UNCHANGED <<acW, acIn, acMask, acH, acRes, acPos, acCur, acSteps,
                   hdVars, netVars>>

ACNext == FlatForward \/ StepForward \/ FlatForwardB

SpecAC == ACInit /\ [][ACNext]_vars

(***************************************************************************)
(* Claims about ActorCritic.forward in recurrent mode (SpecAC).            *)
(***************************************************************************)
acN == Len(acH)
acRows == Len(acIn)
acT == acRows \div acN
Row(t, n) == (t - 1) * acN + n

\* C1: one forward call on T chronological steps flattened into T*N rows
\* returns the same final state, and the same per-step hidden outputs (and
\* head outputs) in row order, as T successive single-step calls that thread
\* the returned state.
C1_FlatEqualsSteps ==
    (acPc # "call" /\ acRows = acT * acN /\ acT >= 1 /\ acPos = acT) =>
        /\ acRes.status = "ok"
        /\ \A t \in 1..acT : acSteps[t].status = "ok"
        /\ acRes.states = acCur
        /\ acRes.states = acSteps[acT].states
        /\ \A t \in 1..acT :
             /\ Slice(acRes.hidden, (t - 1) * acN, acN) = acSteps[t].hidden
             /\ Slice(acRes.logits, (t - 1) * acN, acN) = acSteps[t].logits
             /\ Slice(acRes.value, (t - 1) * acN, acN) = acSteps[t].value

C1_Witness ==
    /\ acPc # "call" /\ acRows = acT * acN /\ acT >= 2 /\ acN >= 2
    /\ acPos = acT
    /\ \E r \in 1..acRows : acMask[r] = 0
    /\ \E r \in 1..acRows : acMask[r] = 1
    /\ acRes.status = "ok"
    /\ acRes.states # acH
    /\ acSteps[1].states # acSteps[2].states

\* the state carried into step t for environment n in a run from h0
CarriedIn(res, h0, t, n) == IF t = 1 THEN h0[n] ELSE res.hidden[Row(t - 1, n)]

MaskZeroResets(res, h0, finiteOnly) ==
    res.status = "ok" =>
        \A t \in 1..(Len(res.hidden) \div acN) : \A n \in 1..acN :
            (acMask[Row(t, n)] = 0
             /\ (finiteOnly => IsFinite(CarriedIn(res, h0, t, n)))) =>
                res.hidden[Row(t, n)] =
                    GRUCell(acW, Fc1Relu(acW, acIn[Row(t, n)]), Fin(0))

TwoRunsAgree(finiteOnly) ==
    (acPc = "done" /\ acRes.status = "ok" /\ acResB.status = "ok") =>
        \A t \in 1..acT :
            (acMask[Row(t, acEnv)] = 0
             /\ (finiteOnly => /\ IsFinite(CarriedIn(acRes, acH, t, acEnv))
                               /\ IsFinite(CarriedIn(acResB, acHB, t, acEnv)))) =>
                /\ \A j \in t..acT :
                     /\ acRes.hidden[Row(j, acEnv)] = acResB.hidden[Row(j, acEnv)]
                     /\ acRes.logits[Row(j, acEnv)] = acResB.logits[Row(j, acEnv)]
                     /\ acRes.value[Row(j, acEnv)] = acResB.value[Row(j, acEnv)]
                /\ acRes.states[acEnv] = acResB.states[acEnv]

\* C2 (as stated): whenever the mask of environment n at step i is 0, the
\* state produced at step i is the cell applied to the features and a zero
\* state, whatever the carried state holds, and two runs that differ only in
\* that environment's carried state agree on it from step i onwards.
C2_MaskZeroResets ==
    /\ MaskZeroResets(acRes, acH, FALSE)
    /\ MaskZeroResets(acResB, acHB, FALSE)
    /\ TwoRunsAgree(FALSE)

\* C2 (amended): the same, for a carried state whose entries are finite.
C2_MaskZeroResetsFinite ==
    /\ MaskZeroResets(acRes, acH, TRUE)
    /\ MaskZeroResets(acResB, acHB, TRUE)
    /\ TwoRunsAgree(TRUE)

C2_Witness ==
    /\ acPc = "done" /\ acRes.status = "ok" /\ acResB.status = "ok"
    /\ acT >= 2 /\ acN >= 2
    /\ IsFinite(acH[acEnv]) /\ IsFinite(acHB[acEnv])
    /\ acMask[Row(1, acEnv)] = 1 /\ acMask[Row(2, acEnv)] = 0
    /\ acRes.hidden[Row(1, acEnv)] # acResB.hidden[Row(1, acEnv)]
    /\ acRes.hidden[Row(2, acEnv)] = acResB.hidden[Row(2, acEnv)]
    /\ acRes.states[acEnv] = acResB.states[acEnv]

\* C10: a call whose number of input rows is neither N nor a positive
\* multiple of N ends in an error raised by the reshape (or, for no rows, by
\* the stack of no outputs) and returns no (logits, value, state).
C10_BadRowsFail ==
    (acRes.status # "none" /\ acRows # acN
     /\ ~(acRows >= acN /\ acRows % acN = 0)) =>
        /\ acRes.status = "error"
        /\ acRes.err \in {"view", "stack"}
        /\ acRes.logits = <<>> /\ acRes.value = <<>> /\ acRes.states = <<>>

C10_Witness ==
    /\ acRes.status = "error" /\ acRes.err = "view"
    /\ acRows > acN /\ acN >= 2 /\ acRows % acN # 0

(***************************************************************************)
(* Heads: exact arithmetic on rationals <<numerator, denominator>>.        *)
(***************************************************************************)
Rat(n) == <<n, 1>>
\* (a shared denominator is kept as it is)
RAdd(p, q) == IF p[2] = q[2] THEN <<p[1] + q[1], p[2]>>
              ELSE <<p[1] * q[2] + q[1] * p[2], p[2] * q[2]>>
RSub(p, q) == IF p[2] = q[2] THEN <<p[1] - q[1], p[2]>>
              ELSE <<p[1] * q[2] - q[1] * p[2], p[2] * q[2]>>
REq(p, q) == IF p[2] = q[2] THEN p[1] = q[1] ELSE p[1] * q[2] = q[1] * p[2]

RECURSIVE SumSeq(_)
SumSeq(s) == IF s = <<>> THEN 0 ELSE s[1] + SumSeq(Tail(s))
RECURSIVE Flatten(_)
Flatten(t) == IF t = <<>> THEN <<>> ELSE t[1] \o Flatten(Tail(t))
RECURSIVE MinSeq(_)
MinSeq(s) == IF Len(s) = 1 THEN s[1]
             ELSE LET m == MinSeq(Tail(s)) IN IF s[1] < m THEN s[1] ELSE m
RECURSIVE Pow2(_)
Pow2(n) == IF n = 0 THEN 1 ELSE 2 * Pow2(n - 1)

SingleStackArchs == {"DQN", "CategoricalDQN", "QRDQN"}
DuelingStackArchs == {"DuelingDQN", "CategoricalDuelingDQN", "DuelingQRDQN"}
FeedForwardArchs == SingleStackArchs \cup DuelingStackArchs
\* the heads whose forward does more than reshape its stack's output
HeadArchs == DuelingStackArchs \cup {"CategoricalDQN"}
CategoricalArchs == {"CategoricalDQN", "CategoricalDuelingDQN"}
HeadSeeds == {1, 2}
FeatVals == {0, 1, 2}
ShiftVals == {-2, 1, 3}

\* the two-layer stacks: relu(first(x)) then second, with the parameters the
\* constructor drew (selected by seed); j is the output unit
ReluInt(n) == IF n > 0 THEN n ELSE 0
AdvStack(seed, f, width) ==
    [j \in 1..width |-> (((j * seed) % 3) - 1) * ReluInt(seed * f - 1) + ((j + seed) % 2)]
ValStack(seed, f, width) ==
    [j \in 1..width |-> (((j + seed) % 3) - 1) * ReluInt(f + seed - 2) + (j % 2)]

\* x.view(-1, A, K) of a (B, A*K) tensor
View3(x, A, K) ==
    [b \in 1..Len(x) |-> [a \in 1..A |-> [k \in 1..K |-> x[b][(a - 1) * K + k]]]]

\* adv.mean(): the mean of all entries of the tensor
MeanAll(adv) == <<SumSeq(Flatten(adv)), Len(Flatten(adv))>>

\* adv.mean(dim=1) of a (B, A, K) tensor: a (B, K) tensor
MeanDim1(adv3) ==
    [b \in 1..Len(adv3) |->
        [k \in 1..Len(adv3[b][1]) |->
            <<SumSeq([a \in 1..Len(adv3[b]) |-> adv3[b][a][k]]), Len(adv3[b])>>]]

\* faulty variant: the advantage is centred per batch row
DuelingDQNForwardRowMean(adv, val) ==
    [b \in 1..Len(adv) |->
        [a \in 1..Len(adv[b]) |->
            RSub(RAdd(Rat(val[b][1]), Rat(adv[b][a])),
                 <<SumSeq(adv[b]), Len(adv[b])>>)]]

\* DuelingDQN.forward from the two streams: val + adv - adv.mean()
DuelingDQNForward(adv, val) ==
    [b \in 1..Len(adv) |->
        [a \in 1..Len(adv[b]) |->
            RSub(RAdd(Rat(val[b][1]), Rat(adv[b][a])), MeanAll(adv))]]

\* faulty variant: the advantages are summed, not averaged
DuelingCombineSum(adv3, val) ==
    [b \in 1..Len(adv3) |->
        [a \in 1..Len(adv3[b]) |->
            [k \in 1..Len(adv3[b][a]) |->
                RSub(RAdd(Rat(val[b][k]), Rat(adv3[b][a][k])),
                     Rat(MeanDim1(adv3)[b][k][1]))]]]

\* val + adv - adv.mean(dim=1).view(-1, 1, K) on (B, A, K) and (B, 1, K)
DuelingCombine(adv3, val) ==
    [b \in 1..Len(adv3) |->
        [a \in 1..Len(adv3[b]) |->
            [k \in 1..Len(adv3[b][a]) |->
                RSub(RAdd(Rat(val[b][k]), Rat(adv3[b][a][k])),
                     MeanDim1(adv3)[b][k])]]]

\* faulty variant: DuelingQRDQN.forward subtracting the sum
DuelingQRDQNForwardSum(adv, val, A, K) == DuelingCombineSum(View3(adv, A, K), val)

\* DuelingQRDQN.forward from the two streams
DuelingQRDQNForward(adv, val, A, K) == DuelingCombine(View3(adv, A, K), val)

\* exp of the entries of one softmax group, up to the common factor softmax
\* cancels.  The entries share a denominator d; exp(n/d) is taken to the base
\* 2^d, so that the weights are the integers 2^(n - min).
ExpWeights(group) ==
    LET nums == [i \in 1..Len(group) |-> group[i][1]]
    IN [i \in 1..Len(group) |-> Pow2(nums[i] - MinSeq(nums))]

\* faulty variant: F.softmax(t, dim=1): normalised along the actions axis
SoftmaxDim1(t) ==
    [b \in 1..Len(t) |->
        [a \in 1..Len(t[b]) |->
            [k \in 1..Len(t[b][a]) |->
                LET w == ExpWeights([a2 \in 1..Len(t[b]) |-> t[b][a2][k]])
                IN <<w[a], SumSeq(w)>>]]]

\* F.softmax(t, dim=2) of a (B, A, K) tensor: normalised along the atoms axis
SoftmaxDim2(t) ==
    [b \in 1..Len(t) |->
        [a \in 1..Len(t[b]) |->
            LET w == ExpWeights(t[b][a])
            IN [k \in 1..Len(t[b][a]) |-> <<w[k], SumSeq(w)>>]]]

\* CategoricalDQN.forward from the fc stack's output
CategoricalDQNForward(x, A, K) ==
    LET x3 == View3(x, A, K)
    IN SoftmaxDim2([b \in 1..Len(x3) |->
                      [a \in 1..A |-> [k \in 1..K |-> Rat(x3[b][a][k])]]])

\* CategoricalDuelingDQN.forward from the two streams
CategoricalDuelingDQNForward(adv, val, A, K) ==
    SoftmaxDim2(DuelingCombine(View3(adv, A, K), val))

\* the head's combination of its streams
HeadForward(arch, adv, val, A, K) ==
    CASE arch = "DuelingDQN" -> DuelingDQNForward(adv, val)
      [] arch = "CategoricalDQN" -> CategoricalDQNForward(adv, A, K)
      [] arch = "CategoricalDuelingDQN" -> CategoricalDuelingDQNForward(adv, val, A, K)
      [] arch = "DuelingQRDQN" -> DuelingQRDQNForward(adv, val, A, K)

\* width of the advantage (or fc) stack and of the value stack
AdvWidth(arch, A, K) == IF arch = "DuelingDQN" THEN A ELSE A * K
ValWidth(arch, K) == IF arch = "DuelingDQN" THEN 1 ELSE K

HeadInit ==
    /\ hdArch \in HeadArchs
    /\ hdB \in 1..MaxBatch
    /\ hdA \in 1..MaxActions
    /\ hdK \in (IF hdArch = "DuelingDQN" THEN {1} ELSE 1..MaxAtoms)
    /\ hdSeed \in HeadSeeds
    /\ hdFeat \in [1..hdB -> FeatVals]
    /\ hdAdv = <<>> /\ hdVal = <<>> /\ hdC = 0
    /\ hdOut = <<>> /\ hdOutC = <<>>
    /\ hdPc = "forward"
    /\ acIdle /\ netIdle

\* forward(x): the body's features through the stacks, then the combination
HeadCall ==
    /\ hdPc = "forward"
    /\ hdAdv' = [b \in 1..hdB |->
                   AdvStack(hdSeed, hdFeat[b], AdvWidth(hdArch, hdA, hdK))]
    /\ hdVal' = IF hdArch = "CategoricalDQN" THEN <<>>
                ELSE [b \in 1..hdB |->
                        ValStack(hdSeed, hdFeat[b], ValWidth(hdArch, hdK))]
    /\ hdOut' = HeadForward(hdArch, hdAdv', hdVal', hdA, hdK)
    /\ hdPc' = "shift"
    /\ UNCHANGED <<hdArch, hdB, hdA, hdK, hdSeed, hdFeat, hdC, hdOutC, acVars,
                   netVars>>

\* the same forward with a constant added to every advantage output
HeadCallShifted ==
    /\ hdPc = "shift"
    /\ hdArch \in DuelingStackArchs
    /\ \E c \in ShiftVals :
         /\ hdC' = c
         /\ hdOutC' = HeadForward(hdArch,
                [b \in 1..hdB |-> [j \in 1..Len(hdAdv[b]) |-> hdAdv[b][j] + c]],
                hdVal, hdA, hdK)
    /\ hdPc' = "done"
    /\ UNCHANGED <<hdArch, hdB, hdA, hdK, hdSeed, hdFeat, hdAdv, hdVal, hdOut,
                   acVars, netVars>>

HeadNext == HeadCall \/ HeadCallShifted

SpecHead == HeadInit /\ [][HeadNext]_vars

(***************************************************************************)
(* Claims about the heads' forward arithmetic (SpecHead).                  *)
(***************************************************************************)
RECURSIVE RSumSeq(_)
RSumSeq(s) == IF s = <<>> THEN Rat(0) ELSE RAdd(s[1], RSumSeq(Tail(s)))

\* the sum of all advantage outputs, row by row
AdvTotal == SumSeq([b \in 1..Len(hdAdv) |-> SumSeq(hdAdv[b])])

\* the canonical dueling formula: the advantage centred within its own row
PerRowDueling(b, a) ==
    <<(hdVal[b][1] + hdAdv[b][a]) * hdA - SumSeq(hdAdv[b]), hdA>>

\* C6: for the three dueling heads, adding one constant to every output of
\* the advantage stream, the value stream unchanged, leaves the combined
\* output unchanged.
C6_ShiftInvariant ==
    (hdPc = "done" /\ hdArch \in DuelingStackArchs) =>
        /\ Len(hdOutC) = Len(hdOut)
        /\ \A b \in 1..hdB :
             /\ Len(hdOutC[b]) = Len(hdOut[b])
             /\ \A a \in 1..hdA :
                  IF hdArch = "DuelingDQN"
                  THEN REq(hdOutC[b][a], hdOut[b][a])
                  ELSE /\ Len(hdOutC[b][a]) = Len(hdOut[b][a])
                       /\ \A k \in 1..hdK : REq(hdOutC[b][a][k], hdOut[b][a][k])

C6_Witness ==
    /\ hdPc = "done" /\ hdArch = "DuelingQRDQN"
    /\ hdB >= 2 /\ hdA >= 2 /\ hdK >= 2 /\ hdC # 0
    /\ \E b \in 1..hdB : \E i, j \in 1..(hdA * hdK) : hdAdv[b][i] # hdAdv[b][j]
    /\ \E b \in 1..hdB : \E k \in 1..hdK : hdVal[b][k] # 0
    /\ \A b \in 1..hdB : \A a \in 1..hdA : \A k \in 1..hdK :
         REq(hdOutC[b][a][k], hdOut[b][a][k])

\* C7: DuelingDQN.forward returns a (batch, num_actions) tensor whose entry
\* (b, a) is value[b] + advantage[b][a] - m, for the single scalar m that is
\* the mean of all batch * num_actions advantage outputs; with batch size 1
\* this is the per-row dueling formula.
C7_FlatMean ==
    (hdArch = "DuelingDQN" /\ hdPc # "forward") =>
        /\ Len(hdOut) = hdB
        /\ \A b \in 1..hdB :
             /\ Len(hdOut[b]) = hdA
             /\ \A a \in 1..hdA :
                  /\ hdOut[b][a][2] > 0
                  /\ hdOut[b][a][1] * (hdB * hdA) =
                       ((hdVal[b][1] + hdAdv[b][a]) * (hdB * hdA) - AdvTotal)
                           * hdOut[b][a][2]
                  /\ hdB = 1 => REq(hdOut[b][a], PerRowDueling(b, a))

\* a batch of two or more rows on which the result is not the per-row formula
C7_Witness ==
    /\ hdArch = "DuelingDQN" /\ hdPc # "forward"
    /\ hdB >= 2 /\ hdA >= 2
    /\ \E b \in 1..hdB : \E a \in 1..hdA :
         ~REq(hdOut[b][a], PerRowDueling(b, a))

\* C8: the categorical heads return a (batch, num_actions, atoms) tensor
\* whose values along the atoms axis are non-negative and sum to 1.
C8_Simplex ==
    (hdArch \in CategoricalArchs /\ hdPc # "forward") =>
        /\ Len(hdOut) = hdB
        /\ \A b \in 1..hdB :
             /\ Len(hdOut[b]) = hdA
             /\ \A a \in 1..hdA :
                  /\ Len(hdOut[b][a]) = hdK
                  /\ \A k \in 1..hdK :
                       hdOut[b][a][k][1] >= 0 /\ hdOut[b][a][k][2] > 0
                  /\ REq(RSumSeq(hdOut[b][a]), Rat(1))

C8_Witness ==
    /\ hdArch = "CategoricalDuelingDQN" /\ hdPc # "forward"
    /\ hdB >= 2 /\ hdA >= 2 /\ hdK >= 2
    /\ \E b \in 1..hdB : \E a \in 1..hdA :
         /\ ~REq(hdOut[b][a][1], hdOut[b][a][2])
         /\ REq(RSumSeq(hdOut[b][a]), Rat(1))
    /\ \E b \in 1..hdB : \E a \in 1..hdA : \E k \in 1..hdK :
         ~REq(hdOut[b][a][k], hdOut[b][1][k])

(***************************************************************************)
(* Construction, sample_noise and DRQN.forward.                            *)
(***************************************************************************)

\* the sub-layers each constructor builds
Layers(n) ==
    CASE n.arch \in SingleStackArchs -> {"body", "fc1", "fc2"}
      [] n.arch \in DuelingStackArchs -> {"body", "adv1", "adv2", "val1", "val2"}
      [] n.arch = "DRQN" -> {"body", "gru", "fc2"}
      [] n.arch = "ActorCritic" ->
            {"conv1", "conv2", "conv3", "fc1", "critic_linear", "actor_linear"}
                \cup (IF n.use_gru THEN {"gru"} ELSE {})

\* the sub-layers built noisy: NoisyLinear where the constructor writes
\* `nn.Linear(...) if not self.noisy else NoisyLinear(...)`, and the body,
\* which is passed the noisy flag
NoisyLayers(n) ==
    IF ~n.noisy THEN {}
    ELSE CASE n.arch \in SingleStackArchs -> {"body", "fc1", "fc2"}
           [] n.arch \in DuelingStackArchs ->
                 {"body", "adv1", "adv2", "val1", "val2"}
           [] n.arch = "DRQN" -> {"body", "fc2"}
           [] n.arch = "ActorCritic" -> {"fc1", "critic_linear", "actor_linear"}

\* faulty variant: the dueling heads stop before the last value layer
SampleNoiseCallsShort(n) ==
    IF ~n.noisy THEN <<>>
    ELSE CASE n.arch \in SingleStackArchs -> <<"body", "fc1", "fc2">>
           [] n.arch \in DuelingStackArchs -> <<"body", "adv1", "adv2", "val1">>
           [] n.arch = "DRQN" -> <<"body", "fc2">>
           [] n.arch = "ActorCritic" -> <<"critic_linear", "actor_linear", "fc1">>

\* faulty variant: sample_noise without its `if self.noisy` test
SampleNoiseCallsUnguarded(n) ==
    CASE n.arch \in SingleStackArchs -> <<"body", "fc1", "fc2">>
      [] n.arch \in DuelingStackArchs -> <<"body", "adv1", "adv2", "val1", "val2">>
      [] n.arch = "DRQN" -> <<"body", "fc2">>
      [] n.arch = "ActorCritic" -> <<"critic_linear", "actor_linear", "fc1">>

\* sample_noise: the sub-layers whose sample_noise it calls, in order
SampleNoiseCalls(n) ==
    IF ~n.noisy THEN <<>>
    ELSE CASE n.arch \in SingleStackArchs -> <<"body", "fc1", "fc2">>
           [] n.arch \in DuelingStackArchs ->
                 <<"body", "adv1", "adv2", "val1", "val2">>
           [] n.arch = "DRQN" -> <<"body", "fc2">>
           [] n.arch = "ActorCritic" -> <<"critic_linear", "actor_linear", "fc1">>

Count(seq, x) == Cardinality({i \in 1..Len(seq) : seq[i] = x})
Resample(ver, calls) == [l \in DOMAIN ver |-> ver[l] + Count(calls, l)]

\* the parameter tensors a module has
ModuleAttrs(kind) ==
    CASE kind \in {"Conv2d", "Linear"} -> {"weight", "bias"}
      [] kind = "NoisyLinear" ->
            {"weight_mu", "weight_sigma", "bias_mu", "bias_sigma"}

\* layer_init: the tensors it writes for one module, or the missing attribute
LayerInit(layer, kind, noisy_layer) ==
    LET w == IF noisy_layer THEN "weight_mu" ELSE "weight"
        b == IF noisy_layer THEN "bias_mu" ELSE "bias"
    IN IF w \notin ModuleAttrs(kind) THEN [ok |-> FALSE, log |-> <<>>]
       ELSE IF b \notin ModuleAttrs(kind) THEN [ok |-> FALSE, log |-> <<<<layer, w>>>>]
       ELSE [ok |-> TRUE, log |-> <<<<layer, w>>, <<layer, b>>>>]

\* ActorCritic.__init__: the init_ calls in order, each with the module built
\* and the noisy_layer argument its lambda passes to layer_init
HeadKind(n) == IF n.noisy THEN "NoisyLinear" ELSE "Linear"
ACInitCalls(n) ==
    << <<"conv1", "Conv2d", FALSE>>,
       <<"conv2", "Conv2d", FALSE>>,
       <<"conv3", "Conv2d", FALSE>>,
       IF n.use_gru THEN <<"fc1", HeadKind(n), FALSE>>
                    ELSE <<"fc1", HeadKind(n), n.noisy>>,
       <<"critic_linear", HeadKind(n), n.noisy>>,
       <<"actor_linear", HeadKind(n), n.noisy>> >>

RECURSIVE RunInits(_, _)
RunInits(calls, log) ==
    IF calls = <<>> THEN [ok |-> TRUE, log |-> log]
    ELSE LET r == LayerInit(calls[1][1], calls[1][2], calls[1][3])
         IN IF r.ok THEN RunInits(Tail(calls), log \o r.log)
            ELSE [ok |-> FALSE, log |-> log \o r.log]

\* shapes: nn.Linear on the last axis, and the batch-first nn.GRU
LinearShape(shape, in_features, out_features) ==
    IF shape[Len(shape)] = in_features
    THEN [ok |-> TRUE, shape |-> [shape EXCEPT ![Len(shape)] = out_features]]
    ELSE [ok |-> FALSE, shape |-> <<>>]
NumDirections(n) == IF n.bidirectional THEN 2 ELSE 1
BodyFeatureSize == 3
GRUShape(n, feats, hidden) ==
    IF feats[3] = BodyFeatureSize
       /\ hidden = <<NumDirections(n), feats[1], n.gru_size>>
    THEN [ok |-> TRUE, out |-> <<feats[1], feats[2], NumDirections(n) * n.gru_size>>,
          hidden |-> hidden]
    ELSE [ok |-> FALSE, out |-> <<>>, hidden |-> <<>>]

\* DRQN.init_hidden
InitHidden(n, batch_size) == <<NumDirections(n), batch_size, n.gru_size>>

\* DRQN.forward with hx omitted, on an input of shape (batch, seq, *input_shape)
DRQNForward(n, batch_size, sequence_length) ==
    LET feats == <<batch_size, sequence_length, BodyFeatureSize>>
        hidden == InitHidden(n, batch_size)
        g == GRUShape(n, feats, hidden)
        x == IF g.ok THEN LinearShape(g.out, n.gru_size, n.num_actions)
             ELSE [ok |-> FALSE, shape |-> <<>>]
    IN IF g.ok /\ x.ok
       THEN [status |-> "ok", shape |-> x.shape, hidden |-> g.hidden,
             init_hidden |-> hidden]
       ELSE [status |-> "shape_error", shape |-> <<>>, hidden |-> <<>>,
             init_hidden |-> hidden]

\* forward: a function of the input, the parameters (fixed here) and the noise
\* every sub-layer holds
NetForward(n, ver, batch_size, sequence_length) ==
    [input |-> <<batch_size, sequence_length>>, noise |-> ver,
     res |-> IF n.arch = "DRQN" THEN DRQNForward(n, batch_size, sequence_length)
             ELSE [status |-> "ok", shape |-> <<>>, hidden |-> <<>>,
                   init_hidden |-> <<>>]]

NetInit ==
    /\ net = NoNet /\ netStatus = "new" /\ netInitLog = <<>>
    /\ noiseVer = <<>> /\ netLog = <<>> /\ netCalls = 0
    /\ netOut = NoOut /\ netRef = NoOut
    /\ acIdle /\ hdIdle

\* the constructors of the six feed-forward heads and of DRQN
Construct ==
    /\ netStatus = "new"
    /\ \E arch \in FeedForwardArchs \cup {"DRQN"}, noisy, bidir \in BOOLEAN,
          g \in 1..MaxGru, a \in 1..MaxActions :
         /\ arch # "DRQN" => (~bidir /\ g = 1 /\ a = 1)
         /\ net' = [arch |-> arch, noisy |-> noisy, use_gru |-> FALSE,
                    bidirectional |-> bidir, gru_size |-> g, num_actions |-> a]
    /\ netStatus' = "ok"
    /\ noiseVer' = [l \in Layers(net') |-> 0]
    /\ UNCHANGED <<netInitLog, netLog, netCalls, netOut, netRef, acVars, hdVars>>

\* ActorCritic.__init__
ConstructActorCritic ==
    /\ netStatus = "new"
    /\ \E use_gru, noisy_nets \in BOOLEAN :
         net' = [arch |-> "ActorCritic", noisy |-> noisy_nets,
                 use_gru |-> use_gru, bidirectional |-> FALSE, gru_size |-> 1,
                 num_actions |-> 1]
    /\ LET r == RunInits(ACInitCalls(net'), <<>>)
           calls == SampleNoiseCalls(net')
       IN /\ netInitLog' = r.log
          /\ IF r.ok
             THEN /\ netStatus' = "ok"
                  /\ noiseVer' = Resample([l \in Layers(net') |-> 0], calls)
                  /\ netLog' = calls
                  /\ netCalls' = IF net'.noisy THEN 1 ELSE 0
             ELSE /\ netStatus' = "AttributeError"
                  /\ noiseVer' = [l \in Layers(net') |-> 0]
                  /\ UNCHANGED <<netLog, netCalls>>
    /\ UNCHANGED <<netOut, netRef, acVars, hdVars>>

\* sample_noise()
SampleNoise ==
    /\ netStatus = "ok"
    /\ netCalls < MaxCalls
    /\ netLog' = SampleNoiseCalls(net)
    /\ noiseVer' = Resample(noiseVer, SampleNoiseCalls(net))
    /\ netCalls' = netCalls + 1
    /\ UNCHANGED <<net, netStatus, netInitLog, netOut, netRef, acVars, hdVars>>

\* forward on an input of batch_size rows (of sequence_length steps for DRQN)
Forward ==
    /\ netStatus = "ok"
    /\ \E batch_size \in 1..MaxBatch, sequence_length \in 1..MaxSeq :
         /\ net.arch # "DRQN" => sequence_length = 1
         /\ netOut' = [at |-> netCalls,
                       out |-> NetForward(net, noiseVer, batch_size,
                                          sequence_length)]
    /\ netRef' = IF netRef = NoOut THEN netOut' ELSE netRef
    /\ UNCHANGED <<net, netStatus, netInitLog, noiseVer, netLog, netCalls,
                   acVars, hdVars>>

NetNext == Construct \/ ConstructActorCritic \/ SampleNoise \/ Forward

SpecNet == NetInit /\ [][NetNext]_vars

(***************************************************************************)
(* Claims about construction, sample_noise and DRQN.forward (SpecNet).     *)
(***************************************************************************)
\* C3: DRQN.forward with hx omitted completes without a shape error for
\* every construction, and returns an output of shape (batch, sequence_length,
\* num_actions) and a hidden state of shape (num_directions, batch, gru_size),
\* the omitted hidden state having been zeros of that shape.
C3_DRQNForwardShapes ==
    (net.arch = "DRQN" /\ netOut # NoOut) =>
        LET o == netOut.out IN
        /\ o.res.status = "ok"
        /\ o.res.shape = <<o.input[1], o.input[2], net.num_actions>>
        /\ o.res.hidden = <<NumDirections(net), o.input[1], net.gru_size>>
        /\ o.res.init_hidden = <<NumDirections(net), o.input[1], net.gru_size>>

\* C4: on a network constructed non-noisy, sample_noise changes nothing: no
\* sub-layer's sample_noise has run, no noise has changed, and forward on the
\* input of the first forward call returns what that call returned.
C4_NonNoisyNoOp ==
    (netStatus = "ok" /\ ~net.noisy) =>
        /\ \A l \in DOMAIN noiseVer : noiseVer[l] = 0
        /\ netLog = <<>>
        /\ (netOut # NoOut /\ netOut.out.input = netRef.out.input) =>
              netOut.out = netRef.out

C4_Witness ==
    /\ netStatus = "ok" /\ ~net.noisy /\ net.arch = "ActorCritic"
    /\ netCalls >= 2
    /\ netRef # NoOut /\ netRef.at = 0
    /\ netOut.at = netCalls /\ netOut.out = netRef.out

\* C5: on each feed-forward head constructed noisy, every sample_noise call
\* resamples every noisy sub-layer exactly once, the body first, then fc1, fc2
\* (single stack) or adv1, adv2, val1, val2 (dueling).
C5_ResampleAllInOrder ==
    (netStatus = "ok" /\ net.noisy /\ net.arch \in FeedForwardArchs) =>
        /\ \A l \in NoisyLayers(net) : noiseVer[l] = netCalls
        /\ netCalls >= 1 =>
              netLog = (IF net.arch \in {"DQN", "CategoricalDQN", "QRDQN"}
                        THEN <<"body", "fc1", "fc2">>
                        ELSE <<"body", "adv1", "adv2", "val1", "val2">>)

C5_Witness ==
    /\ netStatus = "ok" /\ net.noisy /\ net.arch = "DuelingQRDQN"
    /\ netCalls = 2
    /\ \A l \in {"body", "adv1", "adv2", "val1", "val2"} : noiseVer[l] = 2
    /\ netLog = <<"body", "adv1", "adv2", "val1", "val2">>

\* C9: ActorCritic construction with noisy_nets=True completes in both modes,
\* and each noisy layer it builds (fc1, critic_linear, actor_linear) has been
\* initialised through weight_mu / bias_mu, never through weight / bias.
C9_NoisyInitThroughMu ==
    (net.arch = "ActorCritic" /\ net.noisy /\ netStatus # "new") =>
        /\ netStatus = "ok"
        /\ \A l \in {"fc1", "critic_linear", "actor_linear"} :
             /\ \E i \in 1..Len(netInitLog) : netInitLog[i] = <<l, "weight_mu">>
             /\ \E i \in 1..Len(netInitLog) : netInitLog[i] = <<l, "bias_mu">>
             /\ \A i \in 1..Len(netInitLog) :
                  netInitLog[i] \notin {<<l, "weight">>, <<l, "bias">>}

====
